---- MODULE Spec2Model ----
(***************************************************************************)
(* The vehiapp views (views.py) over the relational store of models.py:    *)
(* the role gate, the account operations, the vehicle registry, the        *)
(* driver's log forms and the location feed.                               *)
(*                                                                         *)
(* A table is a function from the primary keys of its rows to the rows.    *)
(* A Profile row is keyed by its user (OneToOneField): the pk of the       *)
(* delete_profile URL names the profile of that user.  Primary keys are    *)
(* handed out by a sequence and never reused.                              *)
(*                                                                         *)
(* What a view answers is an operator of the state and of what is posted   *)
(* (<view>_outcome); the action of the view is what it writes.  A request  *)
(* that is turned away, fails validation or only reads leaves every        *)
(* variable as it is.                                                      *)
(***************************************************************************)
EXTENDS Integers, FiniteSets, Sequences, TLC

\* ------------------------------------------------------------- bounds
MaxUsers == 3
MaxVehicles == 2
MaxLogs == 1
MaxInflight == 1

NULL == 0

UserIds == 1..MaxUsers
VehicleIds == 1..MaxVehicles
LogIds == 1..MaxLogs

\* ------------------------------------------------------------- input domains
Usernames == {"u1", "u2", "u3"}
RegNos == {"KA01", "KA02"}
Makes == {"", "Tata"}
PostedStatuses == {"active", "maintenance", "bogus"}
PostedRoles == {"", "Admin", "driver", "manager"}
PostedCoords == {NULL, 1, 1000}
PostedRegNos == RegNos \cup {""}
PostedUsernames == Usernames \cup {""}
PlaceNames == {"", "Pune"}
SubmitKeys == {"none", "maintenance_submit", "fuel_submit"}
PostedFields == {"", "oil", "tyres"}
\* the stamp timezone.now() leaves in a DateTimeField
Now == 1

\* ------------------------------------------------------------- models.py
ROLE_CHOICES == {"admin", "staff", "driver"}
STATUS_CHOICES == {"active", "inactive", "maintenance"}

\* The tables of models.py and of django.contrib.auth, the primary-key
\* sequences, the users holding a session, and the requests in flight: the
\* Vehicle instance loaded by a request that has not saved it yet.
VARIABLES User, Profile, Vehicle, MaintenanceLog, FuelLog,
          user_seq, vehicle_seq, mlog_seq, flog_seq,
          session, inflight

db == <<User, Profile, Vehicle, MaintenanceLog, FuelLog,
        user_seq, vehicle_seq, mlog_seq, flog_seq>>
vars == <<User, Profile, Vehicle, MaintenanceLog, FuelLog,
          user_seq, vehicle_seq, mlog_seq, flog_seq, session, inflight>>

\* ------------------------------------------------------------- helpers
\* str.lower() on the role strings that occur
lower(s) ==
    CASE s = "Admin" -> "admin"
      [] s = "Driver" -> "driver"
      [] s = "Staff" -> "staff"
      [] s = "Manager" -> "manager"
      [] OTHER -> s

\* the table f without row k
Without(f, k) == [x \in (DOMAIN f) \ {k} |-> f[x]]

\* the table f with row k set to r (UPDATE, or INSERT when k is no row)
WithRow(f, k, r) == [x \in (DOMAIN f) \cup {k} |-> IF x = k THEN r ELSE f[x]]

EmptyTable == [x \in {} |-> NULL]

\* request.user.is_authenticated: the session names a user that still exists
is_authenticated(u) == u \in session /\ u \in DOMAIN User

\* getattr(user, "profile") raises when the user has no Profile
NoRole == "<None>"

is_app_admin(u) ==
    IF ~is_authenticated(u) THEN FALSE
    ELSE IF User[u].is_superuser THEN TRUE
    ELSE IF u \in DOMAIN Profile THEN lower(Profile[u]) = "admin"
    ELSE FALSE

get_user_role(u) ==
    IF u \in DOMAIN Profile THEN lower(Profile[u]) ELSE NoRole

\* role_required comparing the stored role as it is, not lower-cased
role_required_as_stored(allowed_roles, u) ==
    IF ~is_authenticated(u) THEN "redirect_login"
    ELSE IF User[u].is_superuser THEN "run"
    ELSE IF u \in DOMAIN Profile /\ Profile[u] \in allowed_roles \cup {"admin"} THEN "run"
    ELSE "forbidden"

\* The decision of the role_required wrapper: "redirect_login" (login_required),
\* "run" (view_func is called) or "forbidden" (PermissionDenied).
role_required(allowed_roles, u) ==
    IF ~is_authenticated(u) THEN "redirect_login"
    ELSE IF User[u].is_superuser \/ is_app_admin(u) THEN "run"
    ELSE IF get_user_role(u) \in {lower(r) : r \in allowed_roles} THEN "run"
    ELSE "forbidden"

\* ------------------------------------------------------------- Init
\* Two accounts made outside the views: user 1 by createsuperuser, user 2 a
\* plain account; either may carry a Profile row written by hand.
SeedProfiles ==
    { EmptyTable,
      (1 :> "driver") @@ (2 :> "Driver"),
      (2 :> "Admin") }

Init ==
    /\ User = (1 :> [username |-> "u1", is_superuser |-> TRUE])
              @@ (2 :> [username |-> "u2", is_superuser |-> FALSE])
    /\ Profile \in SeedProfiles
    /\ Vehicle = EmptyTable
    /\ MaintenanceLog = EmptyTable
    /\ FuelLog = EmptyTable
    /\ user_seq = 3
    /\ vehicle_seq = 1
    /\ mlog_seq = 1
    /\ flog_seq = 1
    /\ session = {}
    /\ inflight = EmptyTable

\* ------------------------------------------------------------- accounts
UserByName(username) == {u \in DOMAIN User : User[u].username = username}

\* authenticate(): the user of that name when the password is right
authenticate(username, password_ok) ==
    IF password_ok /\ UserByName(username) # {}
    THEN CHOOSE u \in UserByName(username) : TRUE ELSE NULL

\* User.objects.create_user: a new row with the next primary key
create_user(username) ==
    WithRow(User, user_seq, [username |-> username, is_superuser |-> FALSE])

\* Model.delete() of a User row, with the on_delete rules of models.py
\* current_driver with on_delete=CASCADE: the vehicles of the driver go too
SetNullDriver_cascade(u) ==
    [v \in {x \in DOMAIN Vehicle : Vehicle[x].current_driver # u} |-> Vehicle[v]]

SetNullDriver(u) ==
    [v \in DOMAIN Vehicle |->
        IF Vehicle[v].current_driver = u
        THEN [Vehicle[v] EXCEPT !.current_driver = NULL] ELSE Vehicle[v]]

\* created_by with on_delete=CASCADE: the logs of the creator go too
SetNullCreator_cascade(logs, u) ==
    [l \in {x \in DOMAIN logs : logs[x].created_by # u} |-> logs[l]]

SetNullCreator(logs, u) ==
    [l \in DOMAIN logs |->
        IF logs[l].created_by = u
        THEN [logs[l] EXCEPT !.created_by = NULL] ELSE logs[l]]

CascadeProfile(u) == Without(Profile, u)

user_delete(u) ==
    /\ User' = Without(User, u)
    /\ Profile' = CascadeProfile(u)
    /\ Vehicle' = SetNullDriver(u)
    /\ MaintenanceLog' = SetNullCreator(MaintenanceLog, u)
    /\ FuelLog' = SetNullCreator(FuelLog, u)

\* where login_view sends the user it has logged in; "role_not_assigned" when
\* no branch matches and the user is logged out again
login_redirect(u) ==
    LET role == get_user_role(u) IN
    IF role = "admin" \/ (role = NoRole /\ User[u].is_superuser)
    THEN "redirect_admin_dashboard"
    ELSE IF role = "staff" THEN "redirect_staff_dashboard"
    ELSE IF role = "driver" THEN "redirect_driver_dashboard"
    ELSE "role_not_assigned"

login_view_outcome(username, password_ok) ==
    IF authenticate(username, password_ok) = NULL THEN "invalid_credentials"
    ELSE login_redirect(authenticate(username, password_ok))

\* login_view without the logout(request) of the last branch
login_view_stays_logged_in(username, password_ok) ==
    LET user == authenticate(username, password_ok) IN
    /\ UNCHANGED <<db, inflight>>
    /\ session' = IF user = NULL THEN session ELSE session \cup {user}

login_view(username, password_ok) ==
    LET user == authenticate(username, password_ok) IN
    /\ UNCHANGED <<db, inflight>>
    /\ session' = IF user = NULL THEN session
                  ELSE IF login_redirect(user) = "role_not_assigned"
                       THEN session \ {user}
                       ELSE session \cup {user}

logout_view(a) ==
    /\ session' = session \ {a}
    /\ UNCHANGED <<db, inflight>>

\* the account-creating tail shared by register_staff, add_driver and
\* register_user: create_user, then Profile.objects.get_or_create
create_account(username, role) ==
    /\ user_seq <= MaxUsers
    /\ User' = create_user(username)
    /\ Profile' = WithRow(Profile, user_seq, role)
    /\ user_seq' = user_seq + 1
    /\ UNCHANGED <<Vehicle, MaintenanceLog, FuelLog, vehicle_seq, mlog_seq, flog_seq,
                   session, inflight>>

\* role = (request.POST.get("role", "staff") or "staff").lower()
posted_role_of(posted_role) == lower(IF posted_role = "" THEN "staff" ELSE posted_role)

register_staff_outcome(a, username, password, posted_role) ==
    LET g == role_required({"admin"}, a) IN
    IF g # "run" THEN g
    ELSE IF username = "" \/ ~password THEN "invalid"
    ELSE IF UserByName(username) # {} THEN "invalid"
    ELSE "ok"

register_staff(a, username, password, posted_role) ==
    IF register_staff_outcome(a, username, password, posted_role) = "ok"
    THEN create_account(username, posted_role_of(posted_role))
    ELSE UNCHANGED vars

add_driver_outcome(a, username, password) ==
    LET g == role_required({"admin"}, a) IN
    IF g # "run" THEN g
    ELSE IF username = "" \/ ~password THEN "invalid"
    ELSE IF UserByName(username) # {} THEN "invalid"
    ELSE "ok"

add_driver(a, username, password) ==
    IF add_driver_outcome(a, username, password) = "ok"
    THEN create_account(username, "driver")
    ELSE UNCHANGED vars

\* public: no gate.  An empty username passes the view's checks and
\* create_user raises ValueError.
register_user_outcome(username, passwords_match) ==
    IF ~passwords_match THEN "invalid"
    ELSE IF UserByName(username) # {} THEN "invalid"
    ELSE IF username = "" THEN "server_error"
    ELSE "ok"

\* public registration storing an admin role
register_user_as_admin(username, passwords_match) ==
    IF register_user_outcome(username, passwords_match) = "ok"
    THEN create_account(username, "admin")
    ELSE UNCHANGED vars

register_user(username, passwords_match) ==
    IF register_user_outcome(username, passwords_match) = "ok"
    THEN create_account(username, "staff")
    ELSE UNCHANGED vars

delete_profile_outcome(a, pk) ==
    LET g == role_required({"admin"}, a) IN
    IF g # "run" THEN g
    ELSE IF pk \notin DOMAIN Profile THEN "not_found"
    ELSE "ok"

delete_profile(a, pk) ==
    IF delete_profile_outcome(a, pk) = "ok"
    THEN /\ user_delete(pk)
         /\ UNCHANGED <<user_seq, vehicle_seq, mlog_seq, flog_seq, session, inflight>>
    ELSE UNCHANGED vars

\* ------------------------------------------------------------- vehicles
\* Vehicle(): the field defaults of models.py
NewVehicle ==
    [registration_no |-> "", make |-> "", status |-> "active", current_driver |-> NULL,
     latitude |-> NULL, longitude |-> NULL, last_location_time |-> NULL]

\* User.objects.all() as the queryset of current_driver
DriverQueryset_all == DOMAIN User

\* User.objects.filter(profile__role__iexact="driver")
DriverQueryset ==
    {u \in DOMAIN User : u \in DOMAIN Profile /\ lower(Profile[u]) = "driver"}

\* ModelChoiceField(required=False) over the driver queryset
clean_current_driver(d) == d = NULL \/ d \in DriverQueryset

\* ChoiceField over STATUS_CHOICES, required
clean_status(st) == st \in STATUS_CHOICES

\* a form that leaves registration_no out of its unique checks
validate_unique_skipped(reg, pk) == TRUE

\* ModelForm.validate_unique for registration_no, the instance itself excluded
validate_unique(reg, pk) ==
    \A v \in (DOMAIN Vehicle) \ {pk} : Vehicle[v].registration_no # reg

\* VehicleForm.is_valid for the posted data, on the instance with key pk
VehicleForm_is_valid(data, pk) ==
    /\ data.registration_no # ""
    /\ validate_unique(data.registration_no, pk)
    /\ clean_status(data.status)
    /\ clean_current_driver(data.current_driver)

\* VehicleForm.save(commit=False): the posted fields on the instance, and the
\* geocoder's answer when a place name was posted.  loc is what
\* geolocator.geocode returns: NULL (nothing found, geopy missing, or an
\* exception, all swallowed) or the coordinate of the place.
VehicleForm_construct(instance, data, loc) ==
    LET posted == [instance EXCEPT !.registration_no = data.registration_no,
                                   !.make = data.make,
                                   !.status = data.status,
                                   !.current_driver = data.current_driver]
    IN IF data.place_name # "" /\ loc # NULL
       THEN [posted EXCEPT !.latitude = loc, !.longitude = loc,
                           !.last_location_time = Now]
       ELSE posted

\* AssignVehicleForm: fields current_driver and status only
AssignVehicleForm_is_valid(data) ==
    clean_status(data.status) /\ clean_current_driver(data.current_driver)

AssignVehicleForm_construct(instance, data) ==
    [instance EXCEPT !.current_driver = data.current_driver, !.status = data.status]

\* DecimalField(max_digits=9, decimal_places=6), not required
clean_decimal(x) == x = NULL \/ (-1000 < x /\ x < 1000)

VehicleLocationForm_is_valid(data) ==
    clean_decimal(data.latitude) /\ clean_decimal(data.longitude)

\* form.save(commit=False), then obj.last_location_time = timezone.now()
VehicleLocationForm_construct(instance, data) ==
    [instance EXCEPT !.latitude = data.latitude, !.longitude = data.longitude,
                     !.last_location_time = Now]

\* The store's constraints on a Vehicle row: registration_no is unique and
\* current_driver names a User row.  A save that breaks one raises
\* IntegrityError and writes nothing.
integrity_ok(pk, row) ==
    /\ \A v \in (DOMAIN Vehicle) \ {pk} : Vehicle[v].registration_no # row.registration_no
    /\ row.current_driver = NULL \/ row.current_driver \in DOMAIN User

\* Model.save() of a loaded instance: an UPDATE of every column of row pk, and
\* an INSERT under the same key when the row is gone.
instance_save(pk, row) == WithRow(Vehicle, pk, row)

NotVehicle == <<User, Profile, MaintenanceLog, FuelLog, user_seq, vehicle_seq,
                mlog_seq, flog_seq, session>>

add_vehicle_outcome(a, data, loc) ==
    LET g == role_required({"admin", "staff"}, a) IN
    IF g # "run" THEN g
    ELSE IF ~VehicleForm_is_valid(data, NULL) THEN "invalid"
    ELSE IF ~integrity_ok(NULL, VehicleForm_construct(NewVehicle, data, loc))
         THEN "integrity_error"
    ELSE "ok"

add_vehicle(a, data, loc) ==
    IF add_vehicle_outcome(a, data, loc) = "ok"
    THEN /\ vehicle_seq <= MaxVehicles
         /\ Vehicle' = WithRow(Vehicle, vehicle_seq, VehicleForm_construct(NewVehicle, data, loc))
         /\ vehicle_seq' = vehicle_seq + 1
         /\ UNCHANGED <<User, Profile, MaintenanceLog, FuelLog, user_seq, mlog_seq,
                        flog_seq, session, inflight>>
    ELSE UNCHANGED vars

\* The views that load a Vehicle and save a form on it.  The gate and
\* get_object_or_404 come first; the POST is then handled on the instance that
\* was loaded.
allowed_roles_of(op) ==
    IF op = "staff_assign_vehicle" THEN {"staff"} ELSE {"admin", "staff"}

load_outcome(op, a, pk) ==
    LET g == role_required(allowed_roles_of(op), a) IN
    IF g # "run" THEN g
    ELSE IF pk \notin DOMAIN Vehicle THEN "not_found"
    ELSE "loaded"

\* the row the POST of view op saves for the posted data
posted_row(op, instance, data, loc) ==
    IF op = "edit_vehicle" THEN VehicleForm_construct(instance, data, loc)
    ELSE IF op = "update_vehicle_location" THEN VehicleLocationForm_construct(instance, data)
    ELSE AssignVehicleForm_construct(instance, data)

posted_valid(op, pk, data) ==
    IF op = "edit_vehicle" THEN VehicleForm_is_valid(data, pk)
    ELSE IF op = "update_vehicle_location" THEN VehicleLocationForm_is_valid(data)
    ELSE AssignVehicleForm_is_valid(data)

post_outcome(op, pk, instance, data, loc) ==
    IF ~posted_valid(op, pk, data) THEN "invalid"
    ELSE IF ~integrity_ok(pk, posted_row(op, instance, data, loc)) THEN "integrity_error"
    ELSE "ok"

\* form.is_valid() and form.save() of the POST; leaves inflight to the caller
post(op, pk, instance, data, loc) ==
    /\ UNCHANGED NotVehicle
    /\ Vehicle' = IF post_outcome(op, pk, instance, data, loc) = "ok"
                  THEN instance_save(pk, posted_row(op, instance, data, loc))
                  ELSE Vehicle

\* a request handled with no other request in between
view_outcome(op, a, pk, data, loc) ==
    IF load_outcome(op, a, pk) # "loaded" THEN load_outcome(op, a, pk)
    ELSE post_outcome(op, pk, Vehicle[pk], data, loc)

view(op, a, pk, data, loc) ==
    IF load_outcome(op, a, pk) # "loaded" THEN UNCHANGED vars
    ELSE post(op, pk, Vehicle[pk], data, loc) /\ UNCHANGED inflight

edit_vehicle(a, pk, data, loc) == view("edit_vehicle", a, pk, data, loc)
assign_vehicle(a, pk, data) == view("assign_vehicle", a, pk, data, NULL)
staff_assign_vehicle(a, pk, data) == view("staff_assign_vehicle", a, pk, data, NULL)
update_vehicle_location(a, pk, data) == view("update_vehicle_location", a, pk, data, NULL)

\* Vehicle.delete(): the logs of the vehicle go with it (on_delete=CASCADE)
\* the logs' vehicle with on_delete=DO_NOTHING and no constraint
CascadeLogs_nothing(logs, pk) == logs

CascadeLogs(logs, pk) ==
    [l \in {x \in DOMAIN logs : logs[x].vehicle # pk} |-> logs[l]]

delete_vehicle_outcome(a, pk) ==
    LET g == role_required({"admin", "staff"}, a) IN
    IF g # "run" THEN g
    ELSE IF pk \notin DOMAIN Vehicle THEN "not_found"
    ELSE "ok"

delete_vehicle(a, pk) ==
    IF delete_vehicle_outcome(a, pk) = "ok"
    THEN /\ Vehicle' = Without(Vehicle, pk)
         /\ MaintenanceLog' = CascadeLogs(MaintenanceLog, pk)
         /\ FuelLog' = CascadeLogs(FuelLog, pk)
         /\ UNCHANGED <<User, Profile, user_seq, vehicle_seq, mlog_seq, flog_seq,
                        session, inflight>>
    ELSE UNCHANGED vars

\* the ownership check comparing the driver row with the id of the user
detail_denied_any(a, v) == get_user_role(a) = "driver" /\ ~is_app_admin(a)

\* the ownership check of vehicle_detail
detail_denied(a, v) ==
    /\ get_user_role(a) = "driver"
    /\ v.current_driver # a
    /\ ~is_app_admin(a)

vehicle_detail_outcome(a, pk) ==
    LET g == role_required({"admin", "staff", "driver"}, a) IN
    IF g # "run" THEN g
    ELSE IF pk \notin DOMAIN Vehicle THEN "not_found"
    ELSE IF detail_denied(a, Vehicle[pk]) THEN "forbidden"
    ELSE "ok"

vehicle_detail(a, pk) ==
    /\ vehicle_detail_outcome(a, pk) \in {"redirect_login", "forbidden", "not_found", "ok"}
    /\ UNCHANGED vars

\* ------------------------------------------------------------- read-only pages
page_outcome(allowed_roles, a) ==
    LET g == role_required(allowed_roles, a) IN IF g = "run" THEN "ok" ELSE g

admin_dashboard_outcome(a) == page_outcome({"admin"}, a)
vehicle_list_outcome(a) == page_outcome({"admin", "staff"}, a)
maintenance_list_outcome(a) == page_outcome({"admin"}, a)
fuel_logs_outcome(a) == page_outcome({"admin"}, a)
staff_dashboard_outcome(a) == page_outcome({"staff"}, a)
vehicle_track_data_outcome(a) == page_outcome({"admin", "staff"}, a)

PageOutcomes == {"redirect_login", "forbidden", "ok"}

admin_dashboard(a) == admin_dashboard_outcome(a) \in PageOutcomes /\ UNCHANGED vars
vehicle_list(a) == vehicle_list_outcome(a) \in PageOutcomes /\ UNCHANGED vars
maintenance_list(a) == maintenance_list_outcome(a) \in PageOutcomes /\ UNCHANGED vars
fuel_logs(a) == fuel_logs_outcome(a) \in PageOutcomes /\ UNCHANGED vars
staff_dashboard(a) == staff_dashboard_outcome(a) \in PageOutcomes /\ UNCHANGED vars
vehicle_track_data(a) == vehicle_track_data_outcome(a) \in PageOutcomes /\ UNCHANGED vars

\* ------------------------------------------------------------- tracking
\* the loop of vehicle_track_data over the vehicles with key >= pk, in key
\* order: the "vehicles" list of the JSON answer
RECURSIVE track_data_from(_)
track_data_from(pk) ==
    IF pk >= vehicle_seq THEN <<>>
    ELSE IF pk \notin DOMAIN Vehicle THEN track_data_from(pk + 1)
    ELSE LET v == Vehicle[pk] IN
         IF v.latitude = NULL \/ v.longitude = NULL
         THEN track_data_from(pk + 1)
         ELSE <<[id |-> pk, reg |-> v.registration_no, make |-> v.make,
                 status |-> v.status,
                 driver |-> IF v.current_driver \in DOMAIN User
                            THEN User[v.current_driver].username ELSE "",
                 lat |-> v.latitude, lng |-> v.longitude,
                 updated |-> v.last_location_time]>>
              \o track_data_from(pk + 1)

\* the loop skipping a vehicle only when both coordinates are missing
RECURSIVE track_data_from_either(_)
track_data_from_either(pk) ==
    IF pk >= vehicle_seq THEN <<>>
    ELSE IF pk \notin DOMAIN Vehicle THEN track_data_from_either(pk + 1)
    ELSE LET v == Vehicle[pk] IN
         IF v.latitude = NULL /\ v.longitude = NULL
         THEN track_data_from_either(pk + 1)
         ELSE <<[id |-> pk, reg |-> v.registration_no, make |-> v.make,
                 status |-> v.status, driver |-> "",
                 lat |-> v.latitude, lng |-> v.longitude,
                 updated |-> v.last_location_time]>>
              \o track_data_from_either(pk + 1)

track_data_either == track_data_from_either(1)

track_data == track_data_from(1)

\* ------------------------------------------------------------- driver's logs
\* the form's vehicle field left on its default queryset, Vehicle.objects.all()
vehicles_qs_all(a) == DOMAIN Vehicle

\* Vehicle.objects.filter(current_driver=request.user), evaluated when the form
\* validates
vehicles_qs(a) == {v \in DOMAIN Vehicle : Vehicle[v].current_driver = a}

\* MaintenanceForm / FuelForm .is_valid: the vehicle is one of vehicles_qs and
\* the other fields (description and dates, or date, liters, cost and
\* odometer; one value here) hold what a required field needs
LogForm_is_valid(a, vehicle, fields) == vehicle \in vehicles_qs(a) /\ fields # ""

\* m = form.save(commit=False); m.created_by = request.user
new_log(a, vehicle, fields) ==
    [vehicle |-> vehicle, fields |-> fields, created_by |-> a]

driver_dashboard_outcome(a, submit, vehicle, fields) ==
    LET g == role_required({"driver"}, a) IN
    IF g # "run" THEN g
    ELSE IF submit = "none" THEN "ok"
    ELSE IF ~LogForm_is_valid(a, vehicle, fields) THEN "invalid"
    ELSE "saved"

driver_dashboard(a, submit, vehicle, fields) ==
    IF driver_dashboard_outcome(a, submit, vehicle, fields) # "saved"
    THEN UNCHANGED vars
    ELSE IF submit = "maintenance_submit"
         THEN /\ mlog_seq <= MaxLogs
              /\ MaintenanceLog' = WithRow(MaintenanceLog, mlog_seq, new_log(a, vehicle, fields))
              /\ mlog_seq' = mlog_seq + 1
              /\ UNCHANGED <<User, Profile, Vehicle, FuelLog, user_seq, vehicle_seq,
                             flog_seq, session, inflight>>
         ELSE /\ flog_seq <= MaxLogs
              /\ FuelLog' = WithRow(FuelLog, flog_seq, new_log(a, vehicle, fields))
              /\ flog_seq' = flog_seq + 1
              /\ UNCHANGED <<User, Profile, Vehicle, MaintenanceLog, user_seq,
                             vehicle_seq, mlog_seq, session, inflight>>

\* ------------------------------------------------------------- requests in flight
\* The same four views with other requests handled between the load and the
\* save: vehicle_read is the gate and get_object_or_404, vehicle_save the POST
\* on the instance that was loaded.
InstanceViews == {"edit_vehicle", "assign_vehicle", "staff_assign_vehicle",
                  "update_vehicle_location"}

vehicle_read(op, a, pk) ==
    /\ a \notin DOMAIN inflight
    /\ IF load_outcome(op, a, pk) # "loaded" THEN UNCHANGED vars
       ELSE /\ Cardinality(DOMAIN inflight) < MaxInflight
            /\ inflight' = WithRow(inflight, a, [op |-> op, pk |-> pk, instance |-> Vehicle[pk]])
            /\ UNCHANGED <<db, session>>

vehicle_save(op, a, data, loc) ==
    /\ a \in DOMAIN inflight
    /\ inflight[a].op = op
    /\ post(op, inflight[a].pk, inflight[a].instance, data, loc)
    /\ inflight' = Without(inflight, a)

\* ------------------------------------------------------------- posted forms
VehicleData(regs, makes, statuses, drivers, places) ==
    [registration_no : regs, make : makes, status : statuses,
     current_driver : drivers, place_name : places]

AssignData(statuses, drivers) == [status : statuses, current_driver : drivers]

LocationData(coords) == [latitude : coords, longitude : coords]

Drivers == UserIds \cup {NULL}

\* ------------------------------------------------------------- specifications
\* Each specification is the views with the posted values drawn from the sets
\* its claims are about; what is posted elsewhere is one fixed value.

\* a vehicle form with nothing but a registration number and a driver
PlainVehicle(regs, drivers) == VehicleData(regs, {"Tata"}, {"active"}, drivers, {""})

PageStep ==
    \/ \E a \in UserIds : admin_dashboard(a)
    \/ \E a \in UserIds : vehicle_list(a)
    \/ \E a \in UserIds : maintenance_list(a)
    \/ \E a \in UserIds : fuel_logs(a)
    \/ \E a \in UserIds : staff_dashboard(a)
    \/ \E a \in UserIds : vehicle_track_data(a)
    \/ \E a \in UserIds, pk \in VehicleIds : vehicle_detail(a, pk)

\* The gate: every account operation, every view behind role_required.
NextGate ==
    \/ \E u \in Usernames, ok \in BOOLEAN : login_view(u, ok)
    \/ \E a \in UserIds : logout_view(a)
    \/ \E a \in UserIds, u \in PostedUsernames, pw \in BOOLEAN, r \in PostedRoles :
          register_staff(a, u, pw, r)
    \/ \E a \in UserIds, u \in PostedUsernames, pw \in BOOLEAN : add_driver(a, u, pw)
    \/ \E u \in PostedUsernames, pw \in BOOLEAN : register_user(u, pw)
    \/ \E a \in UserIds, pk \in UserIds : delete_profile(a, pk)
    \/ PageStep
    \/ \E a \in UserIds, data \in PlainVehicle({"KA01"}, {NULL}) :
          add_vehicle(a, data, NULL)
    \/ \E a \in UserIds, pk \in VehicleIds, data \in PlainVehicle({"KA01"}, {NULL}) :
          edit_vehicle(a, pk, data, NULL)
    \/ \E a \in UserIds, pk \in VehicleIds, data \in AssignData({"active"}, {NULL}) :
          assign_vehicle(a, pk, data)
    \/ \E a \in UserIds, pk \in VehicleIds, data \in AssignData({"active"}, {NULL}) :
          staff_assign_vehicle(a, pk, data)
    \/ \E a \in UserIds, pk \in VehicleIds, data \in LocationData({1}) :
          update_vehicle_location(a, pk, data)
    \/ \E a \in UserIds, pk \in VehicleIds : delete_vehicle(a, pk)
    \/ \E a \in UserIds, k \in SubmitKeys, v \in VehicleIds :
          driver_dashboard(a, k, v, "oil")

SpecGate == Init /\ [][NextGate]_vars

\* The registry: registration numbers and driver assignment.
NextFleet ==
    \/ \E u \in Usernames : login_view(u, TRUE)
    \/ \E a \in UserIds : logout_view(a)
    \/ \E a \in UserIds : add_driver(a, "u3", TRUE)
    \/ register_user("u3", TRUE)
    \/ \E a \in UserIds, pk \in UserIds : delete_profile(a, pk)
    \/ \E a \in UserIds, data \in PlainVehicle(PostedRegNos, Drivers) :
          add_vehicle(a, data, NULL)
    \/ \E a \in UserIds, pk \in VehicleIds, data \in PlainVehicle(PostedRegNos, Drivers) :
          edit_vehicle(a, pk, data, NULL)
    \/ \E a \in UserIds, pk \in VehicleIds, data \in AssignData({"active", "bogus"}, Drivers) :
          assign_vehicle(a, pk, data)
    \/ \E a \in UserIds, pk \in VehicleIds, data \in AssignData({"active", "bogus"}, Drivers) :
          staff_assign_vehicle(a, pk, data)
    \/ \E a \in UserIds, pk \in VehicleIds : delete_vehicle(a, pk)
    \/ \E a \in UserIds, pk \in VehicleIds : vehicle_detail(a, pk)

SpecFleet == Init /\ [][NextFleet]_vars

\* The logs: the driver's forms, and the deletions that reach the logs.
NextLogs ==
    \/ \E u \in Usernames : login_view(u, TRUE)
    \/ \E a \in UserIds : add_driver(a, "u3", TRUE)
    \/ \E a \in UserIds, pk \in UserIds : delete_profile(a, pk)
    \/ \E a \in UserIds, data \in PlainVehicle(RegNos, Drivers) :
          add_vehicle(a, data, NULL)
    \/ \E a \in UserIds, pk \in VehicleIds, data \in AssignData({"active"}, Drivers) :
          assign_vehicle(a, pk, data)
    \/ \E a \in UserIds, pk \in VehicleIds : delete_vehicle(a, pk)
    \/ \E a \in UserIds, k \in SubmitKeys, v \in VehicleIds, f \in {"", "oil"} :
          driver_dashboard(a, k, v, f)

SpecLogs == Init /\ [][NextLogs]_vars

\* the same with what the log forms carry posted freely, and the accounts
\* of the start only
NextAppend ==
    \/ \E u \in Usernames : login_view(u, TRUE)
    \/ \E a \in UserIds, pk \in UserIds : delete_profile(a, pk)
    \/ \E a \in UserIds, data \in PlainVehicle(RegNos, Drivers) :
          add_vehicle(a, data, NULL)
    \/ \E a \in UserIds, pk \in VehicleIds, data \in AssignData({"active"}, Drivers) :
          assign_vehicle(a, pk, data)
    \/ \E a \in UserIds, pk \in VehicleIds : delete_vehicle(a, pk)
    \/ \E a \in UserIds, k \in SubmitKeys, v \in VehicleIds, f \in PostedFields :
          driver_dashboard(a, k, v, f)

SpecAppend == Init /\ [][NextAppend]_vars

\* The location of the vehicles: the manual update, the geocoded place name
\* and the feed.
NextTrack ==
    \/ \E u \in Usernames : login_view(u, TRUE)
    \/ \E a \in UserIds,
          data \in VehicleData(RegNos, {"Tata"}, {"active"}, {NULL}, PlaceNames),
          loc \in {NULL, 1} :
          add_vehicle(a, data, loc)
    \/ \E a \in UserIds, pk \in VehicleIds,
          data \in VehicleData(RegNos, {"Tata"}, {"active"}, {NULL}, PlaceNames),
          loc \in {NULL, 1} :
          edit_vehicle(a, pk, data, loc)
    \/ \E a \in UserIds, pk \in VehicleIds, data \in LocationData(PostedCoords) :
          update_vehicle_location(a, pk, data)
    \/ \E a \in UserIds, pk \in VehicleIds : delete_vehicle(a, pk)
    \/ \E a \in UserIds : vehicle_track_data(a)

SpecTrack == Init /\ [][NextTrack]_vars

\* Two operators on one vehicle: a view that has loaded the vehicle saves it
\* after the requests of others were handled.
NextConc ==
    \/ \E u \in Usernames : login_view(u, TRUE)
    \/ \E a \in UserIds, data \in PlainVehicle({"KA01"}, {NULL}) :
          add_vehicle(a, data, NULL)
    \/ \E a \in UserIds, pk \in VehicleIds : delete_vehicle(a, pk)
    \/ \E op \in InstanceViews, a \in UserIds, pk \in VehicleIds : vehicle_read(op, a, pk)
    \/ \E a \in UserIds, data \in PlainVehicle(RegNos, {NULL}) :
          vehicle_save("edit_vehicle", a, data, NULL)
    \/ \E a \in UserIds, data \in AssignData({"active", "maintenance"}, {NULL, 2}) :
          vehicle_save("assign_vehicle", a, data, NULL)
    \/ \E a \in UserIds, data \in AssignData({"active", "maintenance"}, {NULL, 2}) :
          vehicle_save("staff_assign_vehicle", a, data, NULL)
    \/ \E a \in UserIds, data \in LocationData({1}) :
          vehicle_save("update_vehicle_location", a, data, NULL)
    \/ \E a \in UserIds, pk \in VehicleIds, data \in PlainVehicle(RegNos, {NULL}) :
          edit_vehicle(a, pk, data, NULL)
    \/ \E a \in UserIds, pk \in VehicleIds, data \in LocationData({1}) :
          update_vehicle_location(a, pk, data)

SpecConc == Init /\ [][NextConc]_vars

\* ============================================================= properties

\* ------------------------------------------------------------- C1
\* what the claim says the gate decides for identity a and role set R
C1Expected(R, a) ==
    IF ~(a \in session /\ a \in DOMAIN User) THEN "redirect_login"
    ELSE IF User[a].is_superuser THEN "run"
    ELSE IF a \in DOMAIN Profile
            /\ (lower(Profile[a]) = "admin" \/ lower(Profile[a]) \in R) THEN "run"
    ELSE "forbidden"

\* the role sets the decorators of views.py name
C1RoleSets == {{"admin"}, {"admin", "staff"}, {"admin", "staff", "driver"},
               {"staff"}, {"driver"}}

\* every gated view with what it answers to identity a, over what can be posted
C1Answers(a) ==
    {<<{"admin"}, admin_dashboard_outcome(a)>>,
     <<{"admin"}, maintenance_list_outcome(a)>>,
     <<{"admin"}, fuel_logs_outcome(a)>>,
     <<{"admin", "staff"}, vehicle_list_outcome(a)>>,
     <<{"admin", "staff"}, vehicle_track_data_outcome(a)>>,
     <<{"staff"}, staff_dashboard_outcome(a)>>}
    \cup {<<{"admin"}, register_staff_outcome(a, u, pw, r)>> :
            u \in PostedUsernames, pw \in BOOLEAN, r \in PostedRoles}
    \cup {<<{"admin"}, add_driver_outcome(a, u, pw)>> :
            u \in PostedUsernames, pw \in BOOLEAN}
    \cup {<<{"admin"}, delete_profile_outcome(a, pk)>> : pk \in UserIds}
    \cup {<<{"admin", "staff"}, add_vehicle_outcome(a, d, NULL)>> :
            d \in PlainVehicle({"KA01"}, {NULL})}
    \cup {<<{"admin", "staff"}, delete_vehicle_outcome(a, pk)>> : pk \in VehicleIds}
    \cup {<<{"admin", "staff"}, view_outcome("edit_vehicle", a, pk, d, NULL)>> :
            pk \in VehicleIds, d \in PlainVehicle({"KA01"}, {NULL})}
    \cup {<<{"admin", "staff"}, view_outcome("assign_vehicle", a, pk, d, NULL)>> :
            pk \in VehicleIds, d \in AssignData({"active"}, {NULL})}
    \cup {<<{"staff"}, view_outcome("staff_assign_vehicle", a, pk, d, NULL)>> :
            pk \in VehicleIds, d \in AssignData({"active"}, {NULL})}
    \cup {<<{"admin", "staff"}, view_outcome("update_vehicle_location", a, pk, d, NULL)>> :
            pk \in VehicleIds, d \in LocationData({1})}
    \cup {<<{"driver"}, driver_dashboard_outcome(a, k, v, "oil")>> :
            k \in SubmitKeys, v \in VehicleIds}

\* an identity the gate turns away is answered with the redirect or the 403,
\* and an identity it lets through with neither
C1Outcomes ==
    \A a \in UserIds :
        /\ \A R \in C1RoleSets : role_required(R, a) = C1Expected(R, a)
        /\ \A p \in C1Answers(a) :
              IF C1Expected(p[1], a) = "run"
              THEN p[2] \notin {"redirect_login", "forbidden"}
              ELSE p[2] = C1Expected(p[1], a)
        /\ \A pk \in VehicleIds :
              IF C1Expected({"admin", "staff", "driver"}, a) = "run"
              THEN vehicle_detail_outcome(a, pk) # "redirect_login"
              ELSE vehicle_detail_outcome(a, pk)
                      = C1Expected({"admin", "staff", "driver"}, a)

\* no step that changes a stored record is the request of an identity the
\* gate of that view turns away
C1NoWrite ==
    db' # db =>
    \A a \in UserIds :
        /\ C1Expected({"admin"}, a) # "run" =>
              /\ \A u \in PostedUsernames, pw \in BOOLEAN, r \in PostedRoles :
                    ~register_staff(a, u, pw, r)
              /\ \A u \in PostedUsernames, pw \in BOOLEAN : ~add_driver(a, u, pw)
              /\ \A pk \in UserIds : ~delete_profile(a, pk)
        /\ C1Expected({"admin", "staff"}, a) # "run" =>
              /\ \A d \in PlainVehicle({"KA01"}, {NULL}) : ~add_vehicle(a, d, NULL)
              /\ \A pk \in VehicleIds : ~delete_vehicle(a, pk)
              /\ \A pk \in VehicleIds, d \in PlainVehicle({"KA01"}, {NULL}) :
                    ~edit_vehicle(a, pk, d, NULL)
              /\ \A pk \in VehicleIds, d \in AssignData({"active"}, {NULL}) :
                    ~assign_vehicle(a, pk, d)
              /\ \A pk \in VehicleIds, d \in LocationData({1}) :
                    ~update_vehicle_location(a, pk, d)
        /\ C1Expected({"staff"}, a) # "run" =>
              \A pk \in VehicleIds, d \in AssignData({"active"}, {NULL}) :
                  ~staff_assign_vehicle(a, pk, d)
        /\ C1Expected({"driver"}, a) # "run" =>
              \A k \in SubmitKeys, v \in VehicleIds : ~driver_dashboard(a, k, v, "oil")

\* C1: a view behind role_required(R) answers an unauthenticated identity with
\* the redirect to login; it runs for an authenticated identity exactly when
\* the identity is a superuser, or its Profile role lower-cased is "admin" or
\* is in R; every other identity gets the 403, and a request that is turned
\* away changes no stored record.
C1_RoleGate == []C1Outcomes /\ [][C1NoWrite]_vars

\* An "Admin" (as stored) passes the admin gate, a staff member passes the
\* staff gate and is refused at the admin gate, a third identity has no session,
\* and a gated view has written.
C1_Witness ==
    \E a, b, c \in UserIds :
        /\ is_authenticated(a) /\ ~User[a].is_superuser
        /\ a \in DOMAIN Profile /\ Profile[a] = "Admin"
        /\ admin_dashboard_outcome(a) = "ok"
        /\ is_authenticated(b) /\ ~User[b].is_superuser
        /\ b \in DOMAIN Profile /\ Profile[b] = "staff"
        /\ vehicle_list_outcome(b) = "ok"
        /\ admin_dashboard_outcome(b) = "forbidden"
        /\ ~is_authenticated(c)
        /\ admin_dashboard_outcome(c) = "redirect_login"
        /\ vehicle_seq > 1

\* ------------------------------------------------------------- C6
\* C6: an identity that has no Profile, no admin role and is not a superuser
\* is never served /admin/dashboard/: whatever logins, registrations and
\* deletions came before, the answer to its request is the redirect to login.
C6_ProfilelessRedirected ==
    \A u \in DOMAIN User :
        (~User[u].is_superuser /\ u \notin DOMAIN Profile)
            => admin_dashboard_outcome(u) = "redirect_login"

\* A non-superuser without a Profile exists and is answered with the redirect,
\* while another identity holds a session and an account has been registered.
C6_Witness ==
    \E u \in DOMAIN User :
        /\ ~User[u].is_superuser /\ u \notin DOMAIN Profile
        /\ admin_dashboard_outcome(u) = "redirect_login"
        /\ session # {}
        /\ user_seq > 3

\* ------------------------------------------------------------- C2
\* The claim as stated: every authenticated identity whose role is driver is
\* refused a vehicle that is not assigned to it and served one that is.
C2_Original ==
    \A a \in UserIds :
        (is_authenticated(a) /\ a \in DOMAIN Profile /\ lower(Profile[a]) = "driver")
            => \A pk \in DOMAIN Vehicle :
                  vehicle_detail_outcome(a, pk)
                      = IF Vehicle[pk].current_driver = a THEN "ok" ELSE "forbidden"

\* C2: an authenticated identity that is not a superuser and whose Profile role
\* is driver is refused (403) every existing vehicle whose current driver is
\* not that identity, and is served every vehicle assigned to it.
C2_DriverOwnership ==
    \A a \in UserIds :
        (/\ is_authenticated(a) /\ ~User[a].is_superuser
         /\ a \in DOMAIN Profile /\ lower(Profile[a]) = "driver")
            => \A pk \in DOMAIN Vehicle :
                  vehicle_detail_outcome(a, pk)
                      = IF Vehicle[pk].current_driver = a THEN "ok" ELSE "forbidden"

\* A logged-in driver who is no superuser, with one vehicle assigned to it
\* (served) and another vehicle that is not (refused).
C2_Witness ==
    \E a \in UserIds, v, w \in DOMAIN Vehicle :
        /\ is_authenticated(a) /\ ~User[a].is_superuser
        /\ a \in DOMAIN Profile /\ lower(Profile[a]) = "driver"
        /\ Vehicle[v].current_driver = a /\ vehicle_detail_outcome(a, v) = "ok"
        /\ Vehicle[w].current_driver # a /\ vehicle_detail_outcome(a, w) = "forbidden"

\* ------------------------------------------------------------- C3
\* the registration number reg is held by a vehicle other than pk
C3Held(reg, pk) ==
    \E v \in (DOMAIN Vehicle) \ {pk} : Vehicle[v].registration_no = reg

C3Refused == {"redirect_login", "forbidden", "not_found", "invalid"}

C3State ==
    /\ \A v, w \in DOMAIN Vehicle :
          v # w => Vehicle[v].registration_no # Vehicle[w].registration_no
    /\ \A a \in UserIds, d \in PlainVehicle(PostedRegNos, Drivers) :
          /\ C3Held(d.registration_no, NULL)
                => add_vehicle_outcome(a, d, NULL) \in C3Refused
          /\ \A pk \in VehicleIds :
                C3Held(d.registration_no, pk)
                    => view_outcome("edit_vehicle", a, pk, d, NULL) \in C3Refused

C3Step ==
    Vehicle' # Vehicle =>
    \A a \in UserIds, d \in PlainVehicle(PostedRegNos, Drivers) :
        /\ add_vehicle(a, d, NULL) => ~C3Held(d.registration_no, NULL)
        /\ \A pk \in VehicleIds :
              edit_vehicle(a, pk, d, NULL) => ~C3Held(d.registration_no, pk)

\* C3: no two vehicles share a registration number; adding a vehicle, or
\* editing one, with a number another vehicle holds is rejected by the form
\* and creates or changes no vehicle.
C3_RegistrationUnique == []C3State /\ [][C3Step]_vars

\* Two vehicles with different numbers; an identity the gate lets through
\* posts the number of the first for a new vehicle and for the second one,
\* and both forms are invalid.
C3_Witness ==
    \E a \in UserIds, v, w \in DOMAIN Vehicle :
        /\ v # w
        /\ role_required({"admin", "staff"}, a) = "run"
        /\ \E d \in PlainVehicle(PostedRegNos, Drivers) :
              /\ d.registration_no = Vehicle[v].registration_no
              /\ add_vehicle_outcome(a, d, NULL) = "invalid"
              /\ view_outcome("edit_vehicle", a, w, d, NULL) = "invalid"
              /\ view_outcome("edit_vehicle", a, v, d, NULL) = "ok"

\* ------------------------------------------------------------- C7
\* d names something that is not an existing identity with role driver
C7NonDriver(d) ==
    d # NULL /\ ~(d \in DOMAIN User /\ d \in DOMAIN Profile
                  /\ lower(Profile[d]) = "driver")

C7State ==
    /\ \A v \in DOMAIN Vehicle : ~C7NonDriver(Vehicle[v].current_driver)
    /\ \A a \in UserIds :
          /\ \A d \in PlainVehicle(PostedRegNos, Drivers) :
                C7NonDriver(d.current_driver) =>
                    /\ add_vehicle_outcome(a, d, NULL) \in C3Refused
                    /\ \A pk \in VehicleIds :
                          view_outcome("edit_vehicle", a, pk, d, NULL) \in C3Refused
          /\ \A d \in AssignData({"active", "bogus"}, Drivers), pk \in VehicleIds :
                C7NonDriver(d.current_driver) =>
                    /\ view_outcome("assign_vehicle", a, pk, d, NULL) \in C3Refused
                    /\ view_outcome("staff_assign_vehicle", a, pk, d, NULL) \in C3Refused

C7Step ==
    Vehicle' # Vehicle =>
    \A a \in UserIds :
        /\ \A d \in PlainVehicle(PostedRegNos, Drivers) :
              /\ add_vehicle(a, d, NULL) => ~C7NonDriver(d.current_driver)
              /\ \A pk \in VehicleIds :
                    edit_vehicle(a, pk, d, NULL) => ~C7NonDriver(d.current_driver)
        /\ \A d \in AssignData({"active", "bogus"}, Drivers), pk \in VehicleIds :
              /\ assign_vehicle(a, pk, d) => ~C7NonDriver(d.current_driver)
              /\ staff_assign_vehicle(a, pk, d) => ~C7NonDriver(d.current_driver)

\* C7: the driver of every vehicle is null or an existing identity whose role
\* is driver (in any letter case); a vehicle or assignment form naming anyone
\* else is rejected and changes no vehicle.
C7_DriverReference == []C7State /\ [][C7Step]_vars

\* A vehicle has a driver, a driver account has been deleted since the start,
\* and an assignment naming an existing identity that is no driver is invalid
\* for an identity the gate lets through.
C7_Witness ==
    \E a \in UserIds, v \in DOMAIN Vehicle, n \in DOMAIN User :
        /\ Vehicle[v].current_driver # NULL
        /\ role_required({"admin", "staff"}, a) = "run"
        /\ C7NonDriver(n)
        /\ view_outcome("assign_vehicle", a, v,
                        [status |-> "active", current_driver |-> n], NULL) = "invalid"
        /\ \E u \in 1..(user_seq - 1) : u \notin DOMAIN User

\* ------------------------------------------------------------- C4
\* the rows of table new are the rows of table old but the row pk
C4Removed(old, new, pk) ==
    /\ DOMAIN new = (DOMAIN old) \ {pk}
    /\ \A k \in DOMAIN new : new[k] = old[k]

\* the logs of table new are the logs of table old, the creator pk nulled
C4CreatorNulled(old, new, pk) ==
    /\ DOMAIN new = DOMAIN old
    /\ \A l \in DOMAIN old :
          new[l] = IF old[l].created_by = pk
                   THEN [old[l] EXCEPT !.created_by = NULL] ELSE old[l]

C4Step ==
    /\ \A a, pk \in UserIds :
          (delete_profile_outcome(a, pk) = "ok" /\ delete_profile(a, pk))
              => pk \in DOMAIN Profile /\ pk \notin DOMAIN Profile'
    /\ \A pk \in UserIds :
          (pk \in DOMAIN Profile /\ pk \notin DOMAIN Profile') =>
              /\ C4Removed(Profile, Profile', pk)
              /\ C4Removed(User, User', pk)
              /\ DOMAIN Vehicle' = DOMAIN Vehicle
              /\ \A v \in DOMAIN Vehicle :
                    Vehicle'[v] = IF Vehicle[v].current_driver = pk
                                  THEN [Vehicle[v] EXCEPT !.current_driver = NULL]
                                  ELSE Vehicle[v]
              /\ C4CreatorNulled(MaintenanceLog, MaintenanceLog', pk)
              /\ C4CreatorNulled(FuelLog, FuelLog', pk)

\* C4: a delete_profile that succeeds removes the Profile and its identity;
\* the vehicles that identity drove stay, with a null driver; the logs it
\* created stay, with a null creator; no other identity, profile, vehicle
\* field or log field changes.
C4_DeleteProfile == [][C4Step]_vars

\* A driver account is gone: a log it wrote is still there with no creator, on
\* a vehicle that is still there with no driver, and another vehicle still has
\* its own driver.
C4_Witness ==
    \E u \in 1..(user_seq - 1), l \in DOMAIN MaintenanceLog \cup DOMAIN FuelLog,
       w \in DOMAIN Vehicle :
        /\ u \notin DOMAIN User
        /\ \/ l \in DOMAIN MaintenanceLog /\ MaintenanceLog[l].created_by = NULL
                /\ Vehicle[MaintenanceLog[l].vehicle].current_driver = NULL
           \/ l \in DOMAIN FuelLog /\ FuelLog[l].created_by = NULL
                /\ Vehicle[FuelLog[l].vehicle].current_driver = NULL
        /\ Vehicle[w].current_driver \in DOMAIN User

\* ------------------------------------------------------------- C9
\* the logs of table new are the logs of table old that are not of vehicle pk
C9LogsRemoved(old, new, pk) ==
    /\ DOMAIN new = {l \in DOMAIN old : old[l].vehicle # pk}
    /\ \A l \in DOMAIN new : new[l] = old[l]

C9State ==
    /\ \A l \in DOMAIN MaintenanceLog : MaintenanceLog[l].vehicle \in DOMAIN Vehicle
    /\ \A l \in DOMAIN FuelLog : FuelLog[l].vehicle \in DOMAIN Vehicle

C9Step ==
    /\ \A a \in UserIds, pk \in VehicleIds :
          (delete_vehicle_outcome(a, pk) = "ok" /\ delete_vehicle(a, pk))
              => pk \in DOMAIN Vehicle /\ pk \notin DOMAIN Vehicle'
    /\ \A pk \in VehicleIds :
          (pk \in DOMAIN Vehicle /\ pk \notin DOMAIN Vehicle') =>
              /\ C4Removed(Vehicle, Vehicle', pk)
              /\ C9LogsRemoved(MaintenanceLog, MaintenanceLog', pk)
              /\ C9LogsRemoved(FuelLog, FuelLog', pk)
              /\ UNCHANGED <<User, Profile>>

\* C9: delete_vehicle on an existing vehicle removes the vehicle and all its
\* maintenance and fuel logs and changes no other vehicle, log, identity or
\* profile; so every log always refers to a vehicle that exists.
C9_DeleteVehicle == []C9State /\ [][C9Step]_vars

\* A maintenance log was written and is gone with its vehicle, while the
\* other vehicle and its fuel log are still there.
C9_Witness ==
    /\ mlog_seq > 1 /\ DOMAIN MaintenanceLog = {}
    /\ \E v \in 1..(vehicle_seq - 1) : v \notin DOMAIN Vehicle
    /\ \E l \in DOMAIN FuelLog : FuelLog[l].vehicle \in DOMAIN Vehicle

\* ------------------------------------------------------------- C10
C10State ==
    \A a \in UserIds, k \in {"maintenance_submit", "fuel_submit"},
       v \in VehicleIds, f \in {"", "oil"} :
        (v \notin DOMAIN Vehicle \/ Vehicle[v].current_driver # a)
            => driver_dashboard_outcome(a, k, v, f)
                  \in {"redirect_login", "forbidden", "invalid"}

\* the one log that table new has and table old has not
C10New(old, new) == new[CHOOSE l \in DOMAIN new : l \notin DOMAIN old]

C10Step ==
    (MaintenanceLog' # MaintenanceLog \/ FuelLog' # FuelLog) =>
    \A a \in UserIds, k \in SubmitKeys, v \in VehicleIds, f \in {"", "oil"} :
        driver_dashboard(a, k, v, f) =>
            /\ v \in DOMAIN Vehicle /\ Vehicle[v].current_driver = a
            /\ k = "maintenance_submit" =>
                  /\ DOMAIN MaintenanceLog' # DOMAIN MaintenanceLog
                  /\ C10New(MaintenanceLog, MaintenanceLog').created_by = a
                  /\ C10New(MaintenanceLog, MaintenanceLog').vehicle = v
            /\ k = "fuel_submit" =>
                  /\ DOMAIN FuelLog' # DOMAIN FuelLog
                  /\ C10New(FuelLog, FuelLog').created_by = a
                  /\ C10New(FuelLog, FuelLog').vehicle = v

\* C10: a log saved through driver_dashboard has the submitter as creator and
\* a vehicle whose current driver is the submitter when it is submitted; a
\* submission naming any other vehicle fails validation and saves no log.
C10_DriverLogs == []C10State /\ [][C10Step]_vars

\* A driver with a session wrote a log on a vehicle that has since been taken
\* from it; a new submission on that vehicle is invalid, one on the vehicle it
\* drives now would be saved.
C10_Witness ==
    \E a \in UserIds, l \in DOMAIN MaintenanceLog, w \in DOMAIN Vehicle :
        /\ MaintenanceLog[l].created_by = a
        /\ Vehicle[MaintenanceLog[l].vehicle].current_driver # a
        /\ driver_dashboard_outcome(a, "fuel_submit", MaintenanceLog[l].vehicle, "oil")
              = "invalid"
        /\ driver_dashboard_outcome(a, "fuel_submit", w, "oil") = "saved"

\* ------------------------------------------------------------- C5
C5Located == {v \in DOMAIN Vehicle :
                Vehicle[v].latitude # NULL /\ Vehicle[v].longitude # NULL}

\* C5: the location feed lists exactly the vehicles with both latitude and
\* longitude set, each once and with its own coordinates: none with a
\* coordinate missing, and none with both set left out.
C5_TrackFeed ==
    /\ {track_data[i].id : i \in 1..Len(track_data)} = C5Located
    /\ Len(track_data) = Cardinality(C5Located)
    /\ \A i \in 1..Len(track_data) :
          /\ track_data[i].lat = Vehicle[track_data[i].id].latitude
          /\ track_data[i].lng = Vehicle[track_data[i].id].longitude

\* One vehicle has only its latitude, another both coordinates, and the feed
\* served to an identity the gate lets through holds the second one alone.
C5_Witness ==
    \E v, w \in DOMAIN Vehicle, a \in UserIds :
        /\ Vehicle[v].latitude # NULL /\ Vehicle[v].longitude = NULL
        /\ w \in C5Located
        /\ vehicle_track_data_outcome(a) = "ok"
        /\ Len(track_data) = 1 /\ track_data[1].id = w

\* ------------------------------------------------------------- C8
\* the step is the save of the assign request of a, on the vehicle it loaded
\* and that is still stored
C8AssignSave(a) ==
    /\ a \in DOMAIN inflight
    /\ inflight[a].op \in {"assign_vehicle", "staff_assign_vehicle"}
    /\ inflight[a].pk \in DOMAIN Vehicle
    /\ a \notin DOMAIN inflight'

C8Step ==
    \A a \in UserIds :
        C8AssignSave(a) =>
            /\ DOMAIN Vehicle' = DOMAIN Vehicle
            /\ \A v \in DOMAIN Vehicle :
                  IF v = inflight[a].pk
                  THEN [Vehicle'[v] EXCEPT !.current_driver = Vehicle[v].current_driver,
                                           !.status = Vehicle[v].status] = Vehicle[v]
                  ELSE Vehicle'[v] = Vehicle[v]
            /\ UNCHANGED <<User, Profile, MaintenanceLog, FuelLog>>

\* C8: the save of an assign (assign_vehicle, staff_assign_vehicle) changes
\* nothing but the driver and the status of its vehicle, as stored just before
\* the save, also when edit_vehicle or update_vehicle_location saved the same
\* vehicle after the assign had loaded it.
C8_AssignFrame == [][C8Step]_vars

\* ------------------------------------------------------------- C11
\* C11: the role of every Profile is one of admin, staff, driver (compared
\* lower-cased, as the views compare it), whatever role was posted to
\* register_staff.
C11_RoleInChoices ==
    \A u \in DOMAIN Profile : lower(Profile[u]) \in ROLE_CHOICES

\* ------------------------------------------------------------- C12
\* every log of table old is in table new with the same vehicle and fields,
\* and the same creator or none when its creator is deleted, or is gone with
\* its vehicle
C12Kept(old, new) ==
    \A l \in DOMAIN old :
        IF l \in DOMAIN new
        THEN /\ new[l].vehicle = old[l].vehicle
             /\ new[l].fields = old[l].fields
             /\ \/ new[l].created_by = old[l].created_by
                \/ /\ new[l].created_by = NULL
                   /\ old[l].created_by \in DOMAIN User
                   /\ old[l].created_by \notin DOMAIN User'
        ELSE old[l].vehicle \in DOMAIN Vehicle /\ old[l].vehicle \notin DOMAIN Vehicle'

\* C12: logs are append-only: no step changes the vehicle or any other field
\* of an existing maintenance or fuel log but its creator, which changes only
\* to null and only when the creating identity is deleted; a log is removed
\* only by the deletion of its vehicle.
C12_LogsAppendOnly ==
    [][C12Kept(MaintenanceLog, MaintenanceLog') /\ C12Kept(FuelLog, FuelLog')]_vars

\* A maintenance log outlived its creator, with the fields it was saved with,
\* and a fuel log is gone with its vehicle.
C12_Witness ==
    /\ \E l \in DOMAIN MaintenanceLog :
          /\ MaintenanceLog[l].created_by = NULL
          /\ MaintenanceLog[l].fields = "tyres"
          /\ MaintenanceLog[l].vehicle \in DOMAIN Vehicle
    /\ flog_seq > 1 /\ DOMAIN FuelLog = {}
    /\ \E v \in 1..(vehicle_seq - 1) : v \notin DOMAIN Vehicle

\* ------------------------------------------------------------- C13
\* C13: a vehicle whose last_location_time is set has both its latitude and
\* its longitude set.
C13_StampedHasLocation ==
    \A v \in DOMAIN Vehicle :
        Vehicle[v].last_location_time # NULL
            => Vehicle[v].latitude # NULL /\ Vehicle[v].longitude # NULL

\* ------------------------------------------------------------- C14
\* u is an identity of the tables users and profiles that the admin gate lets
\* through once it holds a session
C14Admin(users, profiles, u) ==
    /\ u \in DOMAIN users
    /\ \/ users[u].is_superuser
       \/ u \in DOMAIN profiles /\ lower(profiles[u]) = "admin"

C14Step ==
    /\ \A u \in DOMAIN Profile :
          u \in DOMAIN Profile' => Profile'[u] = Profile[u]
    /\ \A u \in UserIds :
          (~C14Admin(User, Profile, u) /\ C14Admin(User', Profile', u)) =>
              /\ u \notin DOMAIN User
              /\ ~User'[u].is_superuser
              /\ \E a \in UserIds, n \in PostedUsernames, r \in PostedRoles :
                    /\ is_authenticated(a)
                    /\ C14Admin(User, Profile, a)
                    /\ register_staff(a, n, TRUE, r)

\* C14: the role of a Profile never changes, and an identity that the admin
\* gate lets through comes into being only by a register_staff of an
\* identity that is itself a superuser or an admin; so no requests of
\* unauthenticated, staff or driver actors, public registration included,
\* make an identity that can run an admin-only view.
C14_NoEscalation == [][C14Step]_vars

\* An admin has been made by register_staff and holds a session, and a
\* driver with a session is refused at every admin-only view.
C14_Witness ==
    \E u, a \in UserIds :
        /\ u >= 3 /\ u \in DOMAIN Profile /\ Profile[u] = "admin"
        /\ is_authenticated(u) /\ admin_dashboard_outcome(u) = "ok"
        /\ is_authenticated(a) /\ ~C14Admin(User, Profile, a)
        /\ admin_dashboard_outcome(a) = "forbidden"
        /\ maintenance_list_outcome(a) = "forbidden"
        /\ fuel_logs_outcome(a) = "forbidden"
        /\ register_staff_outcome(a, "u3", TRUE, "Admin") = "forbidden"
        /\ add_driver_outcome(a, "u3", TRUE) = "forbidden"
        /\ delete_profile_outcome(a, u) = "forbidden"

====
